---- MODULE Spec2Model ----
(***************************************************************************)
(* s3_bucket_metrics.py: the query_bucket command, the AwsSession class    *)
(* and the CwMetric gateway, as a sequential state machine.                *)
(*                                                                         *)
(* Python values that may be None are encoded as sequences: None is <<>>   *)
(* and a string or number x is <<x>>.  Metric values are floats in the     *)
(* program; here a number v stands for v / Denom, so that int() truncates. *)
(***************************************************************************)
EXTENDS Integers, Sequences, FiniteSets, TLC

VARIABLES
    profile,          \* --profile option (None or a string)
    bucket,           \* --bucket option (None or a string)
    region,           \* AwsSession.__init__ parameter
    authentication,   \* AwsSession.__init__ parameter
    account,          \* bucket names the account holds, in the provider's listing order
    pc,               \* position of the control flow
    self,             \* the AwsSession object (None before construction)
    session,          \* the boto3 session returned by AwsSession.cli
    buckets,          \* query_bucket: the working set
    b_idx,            \* query_bucket: index of the loop variable b in buckets
    step,             \* query_bucket: which of the four gateway calls of the iteration is next
    row_size,         \* query_bucket: the first element evaluated for add_row's tuple
    pt,               \* the PrettyTable
    bytes_sum,        \* query_bucket: running total of sizes
    count_sum,        \* query_bucket: running total of counts
    stdout,           \* what was printed
    log,              \* what was logged
    exit_code,        \* argument of sys.exit (None when it was not called)
    exception,        \* the uncaught exception that ended the run (None when none)
    calls,            \* history: the external calls made, in order
    m_outcome,        \* get_s3_metric under test: what get_metric_statistics does
    m_statistic,      \* get_s3_metric under test: the statistic parameter
    m_ret             \* get_s3_metric under test: what it returned or raised

vars == <<profile, bucket, region, authentication, account, pc, self, session,
          buckets, b_idx, step, row_size, pt, bytes_sum, count_sum, stdout, log,
          exit_code, exception, calls, m_outcome, m_statistic, m_ret>>

runVars == <<buckets, b_idx, step, row_size, pt, bytes_sum, count_sum, stdout>>
metricVars == <<m_outcome, m_statistic, m_ret>>
inputVars == <<profile, bucket, region, authentication, account>>

----------------------------------------------------------------------------
(* Bounds of the model *)

MaxBuckets == 2
MaxDatapoints == 2
Denom == 2

(* Program constants *)

Period == 86400
LookbackDays == 2

----------------------------------------------------------------------------
(* Python values *)

None == <<>>
Val(x) == <<x>>
Truthy(x) == x # None /\ x # Val("")

\* int(x) of a non-negative number x / Denom
ToInt(v) == v \div Denom

DefaultRegion == "ap-southeast-2"
DefaultAuthentication == "sso"

----------------------------------------------------------------------------
(* Control results of a call: a returned value or a raised exception *)

Return(v) == [raised |-> FALSE, value |-> v]
Raise(e) == [raised |-> TRUE, error |-> e]

----------------------------------------------------------------------------
(* The environment: local configuration, the account, the monitoring API *)

ConfiguredProfiles == {"dev"}
ProfileInputs == {None, Val("dev"), Val("ghost")}
RunProfileInputs == {Val("dev"), Val("ghost")}
RegionInputs == {DefaultRegion, "us-east-1", "eu-west-1"}
AuthenticationInputs == {"sso", "cli", "SSO", "iam", "saml", "key", ""}

BucketNames == {"a", "b", "c"}
BucketInputs == {None, Val(""), Val("a"), Val("zz")}

\* the sequences of distinct bucket names of length at most MaxBuckets
Accounts ==
    {s \in UNION {[1..n -> BucketNames] : n \in 0..MaxBuckets} :
        \A i, j \in DOMAIN s : i # j => s[i] # s[j]}

MetricValues == {Denom, Denom + 1}
Units == {"Bytes", "Count"}
Statistics == {"Sum", "Average"}

\* a data point always has a Timestamp; the statistics and the Unit may be missing
DatapointsWith(stats, units) ==
    {f @@ u @@ [Timestamp |-> "t"] :
        f \in UNION {[S -> MetricValues] : S \in SUBSET stats},
        u \in {[Timestamp |-> "t"]} \cup {[Unit |-> x] : x \in units}}

\* what get_metric_statistics may return: with or without the Datapoints key
ResponsesWith(stats, units, maxLen) ==
    {[ResponseMetadata |-> "m"]}
    \cup {[Datapoints |-> s, ResponseMetadata |-> "m"] :
            s \in UNION {[1..n -> DatapointsWith(stats, units)] : n \in 0..maxLen}}

ApiError == Raise("ClientError")

\* the outcomes of get_metric_statistics in a run of query_bucket
RunOutcomes == {ApiError} \cup {Return(r) : r \in ResponsesWith({"Sum"}, {"Bytes"}, 1)}

\* the outcomes of get_metric_statistics for get_s3_metric on its own
AllOutcomes == {ApiError} \cup {Return(r) : r \in ResponsesWith(Statistics, Units, MaxDatapoints)}

\* the outcomes of list_buckets: the account's buckets, or an API error
ListOutcomes == {ApiError, Return([Buckets |-> [i \in DOMAIN account |-> [Name |-> account[i]]]])}

----------------------------------------------------------------------------
(* class AwsSession *)

\* mutant of __init__: the authentication mode is stored without being checked
AwsSession__init__Unchecked(p, r, a) ==
    [self |-> [profile |-> p, region |-> r, authentication |-> Val(a)],
     log |-> <<>>, exit |-> None]

\* __init__: the object's fields, what is logged and the sys.exit argument
AwsSession__init__(p, r, a) ==
    IF a = "sso" \/ a = "cli"
    THEN [self |-> [profile |-> p, region |-> r, authentication |-> Val(a)],
          log |-> <<>>, exit |-> None]
    ELSE [self |-> [profile |-> p, region |-> r, authentication |-> None],
          log |-> <<<<"error", "Allowed values for authentication variable are sso or cli.">>>>,
          exit |-> Val(-1)]

\* Session(profile_name, region_name)
Session(p, r) ==
    IF p # None /\ p[1] \notin ConfiguredProfiles
    THEN Raise("ProfileNotFound")
    ELSE Return([profile_name |-> p, region_name |-> r, cache |-> None])

\* the except ProfileNotFound block of cli: self._instance_logger is a Logger,
\* which is not callable, so the call on line 62 raises TypeError and line 63
\* is not reached
ProfileNotFoundHandler ==
    [log |-> <<>>, exit |-> None, exception |-> Val("TypeError")]

\* cli: the session with the credential cache set, or the handler's effect
cli(obj) ==
    LET cli_cache == <<"~", ".aws", obj.authentication[1], "cache">>
        s == Session(obj.profile, obj.region)
    IN  IF s.raised
        THEN [session |-> None] @@ ProfileNotFoundHandler
        ELSE [session |-> [s.value EXCEPT !.cache = Val(cli_cache)],
              log |-> <<>>, exit |-> None, exception |-> None]

----------------------------------------------------------------------------
(* class CwMetric *)

\* the arguments of get_metric_statistics
Request(b, metric, stg_type, statistic) ==
    [Namespace |-> "AWS/S3",
     Dimensions |-> <<[Name |-> "BucketName", Value |-> b],
                      [Name |-> "StorageType", Value |-> stg_type]>>,
     MetricName |-> metric,
     Days |-> LookbackDays,
     Period |-> Period,
     Statistics |-> <<statistic>>]

Fallback == [Value |-> 0, Unit |-> None]

\* mutant of the try block: the last data point is taken, not the first
TrySampleLast(result, statistic) ==
    IF "Datapoints" \notin DOMAIN result THEN Raise("KeyError")
    ELSE IF Len(result.Datapoints) = 0 THEN Raise("IndexError")
    ELSE LET dp == result.Datapoints[Len(result.Datapoints)]
         IN  IF statistic \notin DOMAIN dp THEN Raise("KeyError")
             ELSE IF "Unit" \notin DOMAIN dp THEN Raise("KeyError")
             ELSE Return([Value |-> dp[statistic], Unit |-> Val(dp.Unit)])

\* the body of the try block: subscripting raises KeyError or IndexError
TrySample(result, statistic) ==
    IF "Datapoints" \notin DOMAIN result THEN Raise("KeyError")
    ELSE IF Len(result.Datapoints) = 0 THEN Raise("IndexError")
    ELSE LET dp == result.Datapoints[1]
         IN  IF statistic \notin DOMAIN dp THEN Raise("KeyError")
             ELSE IF "Unit" \notin DOMAIN dp THEN Raise("KeyError")
             ELSE Return([Value |-> dp[statistic], Unit |-> Val(dp.Unit)])

\* get_s3_metric: the API call is made before the try block is entered
get_s3_metric(outcome, statistic) ==
    IF outcome.raised
    THEN Raise(outcome.error)
    ELSE LET t == TrySample(outcome.value, statistic)
         IN  IF t.raised THEN Return(Fallback) ELSE t

get_bucket_size(outcome) == get_s3_metric(outcome, "Sum")
get_bucket_object_count(outcome) == get_s3_metric(outcome, "Sum")

SizeRequest(b) == Request(b, "BucketSizeBytes", "StandardStorage", "Sum")
CountRequest(b) == Request(b, "NumberOfObjects", "AllStorageTypes", "Sum")

----------------------------------------------------------------------------
(* query_bucket *)

Titles == <<"Bucket name", "Size [Bytes]", "Object count">>
NewTable == [field_names |-> Titles, align |-> <<"c", "c", "c">>, rows |-> <<>>]

\* mutant of the branch test: a bucket the account does not hold is not taken
UseExplicitIfHeld(bkt) == Truthy(bkt) /\ \E i \in DOMAIN account : account[i] = bkt[1]

\* the if bucket: test that selects the single-bucket branch
UseExplicit(bkt) == Truthy(bkt)

\* the working set of the single-bucket branch
ExplicitBuckets(bkt) == <<bkt[1]>>

\* mutant of the all-buckets branch: a listing error becomes an empty working set
ListedBucketsOrNone(outcome) ==
    IF outcome.raised
    THEN Return(<<>>)
    ELSE Return([i \in DOMAIN outcome.value.Buckets |-> outcome.value.Buckets[i].Name])

\* the working set of the all-buckets branch: list_buckets is not guarded, so
\* an error it raises leaves query_bucket
ListedBuckets(outcome) ==
    IF outcome.raised
    THEN Raise(outcome.error)
    ELSE Return([i \in DOMAIN outcome.value.Buckets |-> outcome.value.Buckets[i].Name])

\* mutant of add_row: the row is put first
add_row_first(table, row) == [table EXCEPT !.rows = <<row>> \o @]

\* pt.add_row
add_row(table, row) == [table EXCEPT !.rows = Append(@, row)]

\* mutant of the loop test: the loop ends one bucket early
LoopDoneEarly == b_idx >= Len(buckets)

\* the for loop has no bucket left
LoopDone == b_idx > Len(buckets)

\* f"{bytes_sum / 1024 / 1024 / 1024:.2f}" in hundredths: the division by a
\* power of two is exact and the formatting rounds half to even
FormatGB(n) ==
    LET G == 1024 * 1024 * 1024
        q == (n * 100) \div G
        r == (n * 100) % G
    IN  IF 2 * r > G \/ (2 * r = G /\ q % 2 = 1) THEN q + 1 ELSE q

\* the five print calls
Printed(table, bsum, csum) ==
    << [text |-> "\n"],
       [title |-> "S3 bucket metrics", table |-> table],
       [text |-> "\nGrand total:\n"],
       [text |-> "Storage space used (GB).: ", hundredths |-> FormatGB(bsum)],
       [text |-> "Objects count...........: ", count |-> csum] >>

\* the entries of the history of external calls
SessionCall(raised) == [api |-> "Session", raised |-> raised]
ListCall(raised) == [api |-> "list_buckets", raised |-> raised]
MetricCall(request, raised) ==
    [api |-> "get_metric_statistics", request |-> request, raised |-> raised]
PrintCall == [api |-> "print", raised |-> FALSE]

\* an uncaught exception ends the run
Crash(e) ==
    /\ pc' = "crashed"
    /\ exception' = Val(e)

----------------------------------------------------------------------------
(* Initial states *)

Idle ==
    /\ self = None
    /\ session = None
    /\ buckets = <<>>
    /\ b_idx = 1
    /\ step = 1
    /\ row_size = 0
    /\ pt = NewTable
    /\ bytes_sum = 0
    /\ count_sum = 0
    /\ stdout = <<>>
    /\ log = <<>>
    /\ exit_code = None
    /\ exception = None
    /\ calls = <<>>

\* query_bucket(profile, bucket): AwsSession(profile) takes the default region
\* and authentication
Init ==
    /\ profile \in RunProfileInputs
    /\ bucket \in BucketInputs
    /\ region = DefaultRegion
    /\ authentication = DefaultAuthentication
    /\ account \in Accounts
    /\ pc = "start"
    /\ Idle
    /\ m_outcome = None /\ m_statistic = None /\ m_ret = None

\* AwsSession(profile, region, authentication).cli() with any arguments
InitSession ==
    /\ profile \in ProfileInputs
    /\ bucket = None
    /\ region \in RegionInputs
    /\ authentication \in AuthenticationInputs
    /\ account = <<>>
    /\ pc = "start"
    /\ Idle
    /\ m_outcome = None /\ m_statistic = None /\ m_ret = None

\* CwMetric(client).get_s3_metric(bucket, metric, stg_type, statistic) with any
\* outcome of the client's get_metric_statistics
InitMetric ==
    /\ profile = None
    /\ bucket = None
    /\ region = DefaultRegion
    /\ authentication = DefaultAuthentication
    /\ account = <<>>
    /\ pc = "metric"
    /\ Idle
    /\ m_outcome \in AllOutcomes
    /\ m_statistic \in Statistics
    /\ m_ret = None

----------------------------------------------------------------------------
(* Actions *)

\* AwsSession.__init__ (called on line 147)
Construct ==
    /\ pc = "start"
    /\ LET r == AwsSession__init__(profile, region, authentication)
       IN  /\ self' = r.self
           /\ log' = log \o r.log
           /\ exit_code' = r.exit
           /\ pc' = IF r.exit = None THEN "cli" ELSE "exited"
    /\ UNCHANGED <<inputVars, session, runVars, exception, calls, metricVars>>

\* AwsSession.cli (called on line 147)
Cli ==
    /\ pc = "cli"
    /\ LET r == cli(self)
       IN  /\ session' = r.session
           /\ log' = log \o r.log
           /\ exit_code' = r.exit
           /\ exception' = r.exception
           /\ pc' = IF r.exception # None THEN "crashed"
                    ELSE IF r.exit # None THEN "exited"
                    ELSE "enumerate"
    /\ calls' = Append(calls, SessionCall(Session(self.profile, self.region).raised))
    /\ UNCHANGED <<inputVars, self, runVars, metricVars>>

\* lines 148-152 and 160-162: the single-bucket branch
EnumerateExplicit ==
    /\ pc = "enumerate"
    /\ UseExplicit(bucket)
    /\ buckets' = ExplicitBuckets(bucket)
    /\ bytes_sum' = 0
    /\ count_sum' = 0
    /\ pt' = NewTable
    /\ pc' = "loop"
    /\ UNCHANGED <<inputVars, self, session, b_idx, step, row_size, stdout, log,
                   exit_code, exception, calls, metricVars>>

\* lines 148-162: the all-buckets branch
EnumerateAll ==
    /\ pc = "enumerate"
    /\ ~UseExplicit(bucket)
    /\ \E o \in ListOutcomes :
         LET r == ListedBuckets(o)
         IN  /\ IF r.raised
                THEN /\ Crash(r.error)
                     /\ UNCHANGED <<buckets, bytes_sum, count_sum, pt>>
                ELSE /\ buckets' = r.value
                     /\ bytes_sum' = 0
                     /\ count_sum' = 0
                     /\ pt' = NewTable
                     /\ pc' = "loop"
                     /\ UNCHANGED exception
             /\ calls' = Append(calls, ListCall(o.raised))
    /\ UNCHANGED <<inputVars, self, session, b_idx, step, row_size, stdout, log,
                   exit_code, metricVars>>

\* lines 165-171: the alignments and the first element of add_row's tuple
RowSize ==
    /\ pc = "loop" /\ ~LoopDone /\ step = 1
    /\ pt' = [pt EXCEPT !.align = <<"l", "r", "r">>]
    /\ \E o \in RunOutcomes :
         LET r == get_bucket_size(o)
         IN  /\ IF r.raised
                THEN Crash(r.error) /\ UNCHANGED <<row_size, step>>
                ELSE /\ row_size' = r.value.Value
                     /\ step' = 2
                     /\ UNCHANGED <<pc, exception>>
             /\ calls' = Append(calls, MetricCall(SizeRequest(buckets[b_idx]), r.raised))
    /\ UNCHANGED <<inputVars, self, session, buckets, b_idx, bytes_sum, count_sum,
                   stdout, log, exit_code, metricVars>>

\* lines 172 and 168: the second element of the tuple, then add_row
RowCount ==
    /\ pc = "loop" /\ ~LoopDone /\ step = 2
    /\ \E o \in RunOutcomes :
         LET r == get_bucket_object_count(o)
         IN  /\ IF r.raised
                THEN Crash(r.error) /\ UNCHANGED <<pt, step>>
                ELSE /\ pt' = add_row(pt, <<buckets[b_idx], row_size, r.value.Value>>)
                     /\ step' = 3
                     /\ UNCHANGED <<pc, exception>>
             /\ calls' = Append(calls, MetricCall(CountRequest(buckets[b_idx]), r.raised))
    /\ UNCHANGED <<inputVars, self, session, buckets, b_idx, row_size, bytes_sum,
                   count_sum, stdout, log, exit_code, metricVars>>

\* line 175
SumSize ==
    /\ pc = "loop" /\ ~LoopDone /\ step = 3
    /\ \E o \in RunOutcomes :
         LET r == get_bucket_size(o)
         IN  /\ IF r.raised
                THEN Crash(r.error) /\ UNCHANGED <<bytes_sum, step>>
                ELSE /\ bytes_sum' = bytes_sum + ToInt(r.value.Value)
                     /\ step' = 4
                     /\ UNCHANGED <<pc, exception>>
             /\ calls' = Append(calls, MetricCall(SizeRequest(buckets[b_idx]), r.raised))
    /\ UNCHANGED <<inputVars, self, session, buckets, b_idx, row_size, pt,
                   count_sum, stdout, log, exit_code, metricVars>>

\* line 176, and the loop's advance to the next bucket
SumCount ==
    /\ pc = "loop" /\ ~LoopDone /\ step = 4
    /\ \E o \in RunOutcomes :
         LET r == get_bucket_object_count(o)
         IN  /\ IF r.raised
                THEN Crash(r.error) /\ UNCHANGED <<count_sum, step, b_idx>>
                ELSE /\ count_sum' = count_sum + ToInt(r.value.Value)
                     /\ step' = 1
                     /\ b_idx' = b_idx + 1
                     /\ UNCHANGED <<pc, exception>>
             /\ calls' = Append(calls, MetricCall(CountRequest(buckets[b_idx]), r.raised))
    /\ UNCHANGED <<inputVars, self, session, buckets, row_size, pt, bytes_sum,
                   stdout, log, exit_code, metricVars>>

\* lines 178-182
Render ==
    /\ pc = "loop" /\ LoopDone
    /\ stdout' = stdout \o Printed(pt, bytes_sum, count_sum)
    /\ calls' = calls \o [i \in 1..Len(Printed(pt, bytes_sum, count_sum)) |-> PrintCall]
    /\ pc' = "done"
    /\ UNCHANGED <<inputVars, self, session, buckets, b_idx, step, row_size, pt,
                   bytes_sum, count_sum, log, exit_code, exception, metricVars>>

\* one call of get_s3_metric
CallMetric ==
    /\ pc = "metric"
    /\ m_ret' = get_s3_metric(m_outcome, m_statistic)
    /\ pc' = IF m_ret'.raised THEN "raised" ELSE "returned"
    /\ UNCHANGED <<inputVars, self, session, runVars, log, exit_code, exception,
                   calls, m_outcome, m_statistic>>

Next ==
    \/ Construct
    \/ Cli
    \/ EnumerateExplicit
    \/ EnumerateAll
    \/ RowSize
    \/ RowCount
    \/ SumSize
    \/ SumCount
    \/ Render

Spec == Init /\ [][Next]_vars

NextSession == Construct \/ Cli

SpecSession == InitSession /\ [][NextSession]_vars

NextMetric == CallMetric

SpecMetric == InitMetric /\ [][NextMetric]_vars

----------------------------------------------------------------------------
(* Derived quantities the properties are stated in *)

IndexOf(api) == {i \in DOMAIN calls : calls[i].api = api}
SessionCalls == Cardinality(IndexOf("Session"))
ListCalls == Cardinality(IndexOf("list_buckets"))
MetricCalls == Cardinality(IndexOf("get_metric_statistics"))
PrintCalls == Cardinality(IndexOf("print"))

\* the number of gateway calls for one metric of one bucket
FetchesOf(b, metric) ==
    Cardinality({i \in IndexOf("get_metric_statistics") :
                    /\ calls[i].request.MetricName = metric
                    /\ calls[i].request.Dimensions[1].Value = b})

\* a call of get_metric_statistics raised
MetricApiFailed == \E i \in IndexOf("get_metric_statistics") : calls[i].raised

\* the call of list_buckets raised
ListFailed == \E i \in IndexOf("list_buckets") : calls[i].raised

\* the named profile is absent from the local configuration
ProfileMissing == profile # None /\ profile[1] \notin ConfiguredProfiles

\* the working set has been determined
Enumerated == pc \in {"loop", "done"} \/ MetricCalls > 0

RECURSIVE SumColumn(_, _)
SumColumn(rows, col) ==
    IF rows = <<>> THEN 0
    ELSE ToInt(Head(rows)[col]) + SumColumn(Tail(rows), col)

RowNames(rows) == [i \in DOMAIN rows |-> rows[i][1]]

\* the table and the totals that were printed
PrintedTable == stdout[2].table
PrintedCount == stdout[5].count

----------------------------------------------------------------------------
(* Properties *)

\* C1 (as claimed): no outcome of the monitoring query is fatal to query_bucket:
\* when get_metric_statistics raises, get_s3_metric returns the fallback sample
\* and the run goes on.
C1_MetricFailureNeverFatal ==
    MetricApiFailed => (pc # "crashed" /\ exception = None)

\* C2 (as claimed): in a completed run the size metric and the object-count
\* metric are each fetched exactly once per bucket, 2*N gateway calls in all.
C2_EachMetricFetchedOnce ==
    pc = "done" =>
        /\ \A i \in DOMAIN buckets :
             /\ FetchesOf(buckets[i], "BucketSizeBytes") = 1
             /\ FetchesOf(buckets[i], "NumberOfObjects") = 1
        /\ MetricCalls = 2 * Len(buckets)

\* C3 (as claimed): when the report is rendered the grand totals are the sums
\* of the truncated values shown in the rows.
C3_TotalsMatchRows ==
    pc = "done" =>
        /\ bytes_sum = SumColumn(PrintedTable.rows, 2)
        /\ stdout[4].hundredths = FormatGB(SumColumn(PrintedTable.rows, 2))
        /\ PrintedCount = SumColumn(PrintedTable.rows, 3)

\* C4 (as claimed): with a profile that does not exist, cli logs the condition
\* and ends the process through sys.exit(-1), before any listing or metric query.
C4_ProfileNotFoundExits ==
    (ProfileMissing /\ SessionCalls > 0) =>
        /\ pc = "exited"
        /\ exit_code = Val(-1)
        /\ log # <<>>
        /\ ListCalls = 0 /\ MetricCalls = 0

\* C5: an authentication mode other than sso or cli logs an error and exits
\* with -1 before any session is created; sso and cli are stored unchanged and
\* construction neither logs nor exits.
C5_AuthenticationValidated ==
    pc # "start" =>
        IF authentication \in {"sso", "cli"}
        THEN /\ self.authentication = Val(authentication)
             /\ self.profile = profile /\ self.region = region
             /\ exit_code = None
             /\ log = <<>>
        ELSE /\ pc = "exited"
             /\ exit_code = Val(-1)
             /\ Len(log) = 1 /\ log[1][1] = "error"
             /\ session = None
             /\ calls = <<>>

C5_Witness ==
    /\ pc = "exited"
    /\ authentication = "iam"
    /\ exit_code = Val(-1)
    /\ calls = <<>>

\* C6 (as claimed): for every string X given as --bucket the working set is
\* <<X>>, list_buckets is never called and the report has exactly one row.
C6_AnyStringIsExplicit ==
    bucket # None =>
        /\ ListCalls = 0
        /\ Enumerated => buckets = <<bucket[1]>>
        /\ pc = "done" => Len(PrintedTable.rows) = 1

\* C6 (amended): for every non-empty string X given as --bucket, whether or
\* not the account holds X, the working set is <<X>>, list_buckets is never
\* called and a rendered report has exactly one row, the row of X.
C6_NonEmptyIsExplicit ==
    Truthy(bucket) =>
        /\ ListCalls = 0
        /\ Enumerated => buckets = <<bucket[1]>>
        /\ pc = "done" => /\ Len(PrintedTable.rows) = 1
                          /\ PrintedTable.rows[1][1] = bucket[1]

C6_Witness ==
    /\ pc = "done"
    /\ bucket = Val("zz")
    /\ \A i \in DOMAIN account : account[i] # "zz"
    /\ account # <<>>
    /\ Len(PrintedTable.rows) = 1

\* C7: the rows added so far name the first buckets of the working set in its
\* order, the working set is what list_buckets returned (or the bucket given),
\* and the rendered table has one row per bucket, in that order.
C7_RowsFollowWorkingSet ==
    Enumerated =>
        /\ buckets = IF Truthy(bucket) THEN <<bucket[1]>> ELSE account
        /\ Len(pt.rows) <= Len(buckets)
        /\ RowNames(pt.rows) = SubSeq(buckets, 1, Len(pt.rows))
        /\ pc = "done" => RowNames(PrintedTable.rows) = buckets

C7_Witness ==
    /\ pc = "done"
    /\ bucket = None
    /\ account = <<"b", "a">>
    /\ RowNames(PrintedTable.rows) = <<"b", "a">>

\* C8: for every response get_metric_statistics returns, get_s3_metric returns
\* the Value and the Unit of the first data point when that data point has the
\* statistic and a Unit, and the fallback sample otherwise.
C8_FirstDatapointOrFallback ==
    (pc # "metric" /\ ~m_outcome.raised) =>
        LET result == m_outcome.value
            usable == /\ "Datapoints" \in DOMAIN result
                      /\ result.Datapoints # <<>>
                      /\ {m_statistic, "Unit"} \subseteq DOMAIN Head(result.Datapoints)
        IN  /\ pc = "returned"
            /\ m_ret.value =
                 IF usable
                 THEN [Value |-> Head(result.Datapoints)[m_statistic],
                       Unit |-> Val(Head(result.Datapoints).Unit)]
                 ELSE [Value |-> 0, Unit |-> None]

C8_Witness ==
    /\ pc = "returned"
    /\ ~m_outcome.raised
    /\ "Datapoints" \in DOMAIN m_outcome.value
    /\ Len(m_outcome.value.Datapoints) = 2
    /\ {"Sum", "Unit"} \subseteq DOMAIN m_outcome.value.Datapoints[1]
    /\ {"Sum", "Unit"} \subseteq DOMAIN m_outcome.value.Datapoints[2]
    /\ m_outcome.value.Datapoints[1].Sum # m_outcome.value.Datapoints[2].Sum
    /\ m_statistic = "Sum"
    /\ m_ret.value.Value = m_outcome.value.Datapoints[1].Sum

\* C9: the calls of a run are in this order: the session creation (once), the
\* bucket listing (never in single-bucket mode, once in all-buckets mode), the
\* metric queries, the prints; nothing is printed before every bucket has its
\* row and its totals, and a completed run has rendered exactly once.
C9_StepsInOrder ==
    /\ SessionCalls <= 1
    /\ ListCalls <= 1
    /\ \A i \in IndexOf("Session") : i = 1
    /\ \A i \in IndexOf("list_buckets") : i = 2
    /\ \A i \in IndexOf("get_metric_statistics") :
         /\ SessionCalls = 1 /\ session # None
         /\ ListCalls = IF Truthy(bucket) THEN 0 ELSE 1
         /\ \A j \in IndexOf("print") : i < j
    /\ PrintCalls = Len(stdout)
    /\ stdout # <<>> =>
         /\ pc = "done"
         /\ stdout = Printed(pt, bytes_sum, count_sum)
         /\ SessionCalls = 1
         /\ ListCalls = IF Truthy(bucket) THEN 0 ELSE 1
         /\ Len(pt.rows) = Len(buckets)
         /\ MetricCalls = 4 * Len(buckets)
         /\ ~MetricApiFailed
    /\ pc = "done" => stdout # <<>>

C9_Witness ==
    /\ pc = "done"
    /\ bucket = None
    /\ Len(buckets) = 2
    /\ ListCalls = 1
    /\ MetricCalls = 8
    /\ PrintCalls = 5

\* C10: an error raised by list_buckets leaves query_bucket uncaught: the run
\* ends there, with no metric query and nothing printed.
C10_ListingFailureIsFatal ==
    ListFailed =>
        /\ pc = "crashed"
        /\ exception = Val("ClientError")
        /\ exit_code = None
        /\ calls[Len(calls)] = ListCall(TRUE)
        /\ MetricCalls = 0
        /\ stdout = <<>>
        /\ pt.rows = <<>>

C10_Witness ==
    /\ ListFailed
    /\ pc = "crashed"
    /\ account # <<>>
    /\ bucket = None

====
